---- MODULE Spec2Model ----
(***************************************************************************)
(* taskstodo: the task list cache of tasklists.py and the operations that  *)
(* resolve a list title through it (get, create, delete, update).          *)
(*                                                                         *)
(* One action is one invocation of one operation, run to its end; 'last'   *)
(* holds what the invocation did until it returns (Return).  The           *)
(* remote service and the process environment are inputs of an invocation: *)
(* which remote call fails with HttpError (failAt) and whether the process *)
(* is interrupted while it writes the cache file (killAt).  Whether the    *)
(* service leaves the 'items' key out of an empty collection is a property *)
(* of the service (omitsItems): the code reads the key with .get('items'). *)
(*                                                                         *)
(* Spec is the behaviour of tasklists.py.  SpecCalcurse is that of         *)
(* calcurse.py: the calls get_calcurse_tasks, get_google_tasks and         *)
(* sync_tasks on a data directory (the todo file and the note files) and a *)
(* remote list; 'cc' holds what the last call did.                         *)
(***************************************************************************)
EXTENDS Integers, Sequences, FiniteSets, TLC

\* ------------------------------------------------------------------ bounds
MaxLists == 3       \* task lists the remote store holds at most
MaxIds == 4         \* identifiers the remote store hands out
MaxInit == 2        \* task lists of the remote store before the first run
MaxFail == 4        \* the remote call of an invocation that may fail: 1..MaxFail
MaxKill == 2        \* the cache write of an invocation that may be interrupted
MaxTodo == 2        \* lines the calcurse todo file holds at most

\* tasklists().list(maxResults=100): one page of task lists.  The page is
\* scaled from 100 to 2 lists so that a store of MaxLists lists exceeds it.
MaxResults == 2

Titles == {"A", "B"}
ListNums == {-2, -1, 0, 1, 2}
NoId == 0
NoNote == "None"

\* remote .. last belong to tasklists.py; todo and notesDir are the files of
\* the calcurse data directory and cc is what the last call into calcurse.py
\* did.
VARIABLES remote, nextId, omitsItems, cacheFile, last, todo, notesDir, cc

vars == <<remote, nextId, omitsItems, cacheFile, last, todo, notesDir, cc>>

Min(a, b) == IF a < b THEN a ELSE b

\* ------------------------------------------------------------ remote store
\* A task of the service: 'position' is a string of decimal digits, kept as
\* the sequence of its digits.
Task(id, pos, notes) ==
    [id |-> id, title |-> "t", updated |-> 0, notes |-> notes, position |-> pos]

\* The tasks a list may hold, in the order the service returns them.
TaskChoices ==
    { <<>>,
      <<Task(1, <<9>>, NoNote), Task(2, <<1, 0>>, "")>> }

RemoteList(id, title, tasks) ==
    [id |-> id, title |-> title, updated |-> 0, tasks |-> tasks]

RECURSIVE InitRemotes(_)
InitRemotes(n) ==
    IF n = 0 THEN { <<>> }
    ELSE LET shorter == InitRemotes(n - 1)
         IN shorter \cup
            { Append(r, RemoteList(n, t, ts)) :
                r \in { s \in shorter : Len(s) = n - 1 },
                t \in Titles, ts \in TaskChoices }

RemoteIds(rem) == { rem[i].id : i \in 1..Len(rem) }

RemoteById(rem, id) == rem[CHOOSE i \in 1..Len(rem) : rem[i].id = id]

\* ---------------------------------------------------------------- cache file
FileAbsent == [kind |-> "absent", lists |-> <<>>]
FileJson(lists) == [kind |-> "json", lists |-> lists]
\* open(CACHE_FILE, 'w') has truncated the file ("empty"), or json.dump has
\* written only a prefix of the text ("partial").
FileBroken(kind) == [kind |-> kind, lists |-> <<>>]

\* ------------------------------------------------- one invocation's context
\* An invocation meets at most one fault: after a failed remote call no
\* operation issues another call or writes the file, and an interrupted write
\* ends the process.
Faults ==
    { [failAt |-> k, killAt |-> 0, killMode |-> "empty"] : k \in 0..MaxFail }
    \cup { [failAt |-> 0, killAt |-> w, killMode |-> m] :
             w \in 1..MaxKill, m \in {"empty", "partial"} }

Env(f, noItems) ==
    [failAt |-> f.failAt, killAt |-> f.killAt, killMode |-> f.killMode,
     noItems |-> noItems]

Ctx0(file) ==
    [file |-> file, calls |-> <<>>, writes |-> 0, rebuilds |-> 0, done |-> 0,
     enum |-> <<>>, status |-> "run", exc |-> "", err |-> FALSE,
     retries |-> 0, miss |-> FALSE, rrebuilds |-> 0, rdone |-> 0,
     printed |-> <<>>, failFile |-> file]

\* The next remote call of the invocation raises HttpError.
Fails(c, env) == Len(c.calls) + 1 = env.failAt

\* 'failFile' keeps the cache file as it was when a call failed.
Issue(c, m, id, ok) ==
    [c EXCEPT !.calls = Append(@, [m |-> m, id |-> id, ok |-> ok]),
              !.err = @ \/ ~ok,
              !.failFile = IF ok THEN @ ELSE c.file]

\* An exception nothing catches ends the invocation.
Raise(c, exc) == [c EXCEPT !.status = "crash", !.exc = exc]

\* ------------------------------------------------------ create_tasklist_cache
\* Python compares the position strings character by character.
RECURSIVE StrLess(_, _)
StrLess(a, b) ==
    IF b = <<>> THEN FALSE
    ELSE IF a = <<>> THEN TRUE
    ELSE IF Head(a) # Head(b) THEN Head(a) < Head(b)
    ELSE StrLess(Tail(a), Tail(b))

\* list.sort(key=position): stable, ascending by the key.
RECURSIVE InsertByPosition(_, _)
InsertByPosition(sorted, t) ==
    IF sorted = <<>> THEN <<t>>
    ELSE IF StrLess(t.position, sorted[Len(sorted)].position)
         THEN Append(InsertByPosition(SubSeq(sorted, 1, Len(sorted) - 1), t),
                     sorted[Len(sorted)])
         ELSE Append(sorted, t)

RECURSIVE SortByPosition(_)
SortByPosition(items) ==
    IF items = <<>> THEN <<>>
    ELSE InsertByPosition(SortByPosition(SubSeq(items, 1, Len(items) - 1)),
                          items[Len(items)])

\* int(position)
RECURSIVE StrToInt(_)
StrToInt(digits) ==
    IF digits = <<>> THEN 0
    ELSE 10 * StrToInt(SubSeq(digits, 1, Len(digits) - 1)) + digits[Len(digits)]

CacheTask(item) ==
    [id |-> item.id, title |-> item.title, updated |-> item.updated,
     note |-> item.notes, position |-> StrToInt(item.position)]

CacheTasks(task_items) ==
    LET sorted == SortByPosition(task_items)
    IN [j \in 1..Len(sorted) |-> CacheTask(sorted[j])]

CacheList(item) ==
    [id |-> item.id, title |-> item.title, updated |-> item.updated,
     tasks |-> CacheTasks(item.tasks)]

\* DumpCache that opens the file to append: the text it held is kept.
DumpCache_appending(c, tasklists, env) ==
    LET c1 == [c EXCEPT !.writes = @ + 1]
    IN IF c1.writes = env.killAt
       THEN [c1 EXCEPT !.file = FileBroken(env.killMode), !.status = "killed"]
       ELSE [c1 EXCEPT !.file = FileJson(c.file.lists \o tasklists),
                       !.done = @ + 1]

\* with open(CACHE_FILE, 'w') as f: json.dump(tasklists, f, indent=4)
DumpCache(c, tasklists, env) ==
    LET c1 == [c EXCEPT !.writes = @ + 1]
    IN IF c1.writes = env.killAt
       THEN [c1 EXCEPT !.file = FileBroken(env.killMode), !.status = "killed"]
       ELSE [c1 EXCEPT !.file = FileJson(tasklists), !.done = @ + 1]

\* The loop over the task lists of the page: one tasks().list per list.
RECURSIVE CacheLoop(_, _, _, _, _)
CacheLoop(c, items, i, tasklists, env) ==
    IF i > Len(items)
    THEN [c |-> c, ok |-> TRUE, lists |-> tasklists]
    ELSE LET ok == ~Fails(c, env)
             c1 == Issue(c, "tasks.list", items[i].id, ok)
         IN IF ~ok
            THEN [c |-> c1, ok |-> FALSE, lists |-> <<>>]
            ELSE IF items[i].tasks = <<>> /\ env.noItems
            THEN [c |-> Raise(c1, "AttributeError"), ok |-> FALSE, lists |-> <<>>]
            ELSE CacheLoop(c1, items, i + 1,
                           Append(tasklists, CacheList(items[i])), env)

\* CacheWrite that writes the lists gathered so far when a remote call failed.
CacheWrite_onfailure(loop, env) ==
    LET c2 == DumpCache(loop.c, loop.lists, env)
    IN [c |-> c2, ok |-> loop.ok /\ c2.status = "run", lists |-> loop.lists]

\* Lines 57-60, after the loop: write the file and return the task lists.
\* 'ok' tells that the lists were returned, c.status tells a crash.
CacheWrite(loop, env) ==
    LET c2 == DumpCache(loop.c, loop.lists, env)
    IN IF ~loop.ok
       THEN loop
       ELSE [c |-> c2, ok |-> c2.status = "run", lists |-> loop.lists]

\* Returns the task lists (ok) or None (~ok).
create_tasklist_cache(c0, rem, env) ==
    LET c == [c0 EXCEPT !.rebuilds = @ + 1]
        ok == ~Fails(c, env)
        c1 == Issue(c, "tasklists.list", NoId, ok)
        page == SubSeq(rem, 1, Min(Len(rem), MaxResults))
    IN IF ~ok
       THEN [c |-> c1, ok |-> FALSE, lists |-> <<>>]
       ELSE IF page = <<>> /\ env.noItems
       THEN [c |-> Raise(c1, "TypeError"), ok |-> FALSE, lists |-> <<>>]
       ELSE CacheWrite(CacheLoop([c1 EXCEPT !.enum = page], page, 1, <<>>, env),
                       env)

\* -------------------------------------------------------- load_tasklist_cache
\* The task lists, None (FileNotFoundError is caught), or json.load raises.
load_tasklist_cache(file) ==
    [raised |-> file.kind \in {"empty", "partial"},
     none |-> file.kind = "absent",
     lists |-> file.lists]

\* ----------------------------------------------------------- get_tasklist_ids
RECURSIVE MatchingIds(_, _)
MatchingIds(tasklists, title) ==
    IF tasklists = <<>> THEN <<>>
    ELSE LET rest == SubSeq(tasklists, 1, Len(tasklists) - 1)
             tl == tasklists[Len(tasklists)]
         IN IF tl.title = title
            THEN Append(MatchingIds(rest, title), tl.id)
            ELSE MatchingIds(rest, title)

\* What the call leaves in the context when it ends: the rebuilds it made.
EndResolve(c) == [c EXCEPT !.rrebuilds = c.rebuilds, !.rdone = c.done]

Resolved(c, ids) == [c |-> EndResolve(c), ids |-> ids]

\* 'for tasklist in tasklists' over None raises TypeError.
AfterRebuild(r) ==
    IF r.c.status # "run" THEN r.c
    ELSE IF ~r.ok THEN Raise(r.c, "TypeError")
    ELSE r.c

\* Lines 110-114: the lookup in the refreshed task lists 'second'.
SecondLookup(second, title) ==
    IF AfterRebuild(second).status # "run"
    THEN Resolved(AfterRebuild(second), <<>>)
    ELSE Resolved(AfterRebuild(second), MatchingIds(second.lists, title))

\* RetryLookup without its refresh: the miss of the cache is the answer.
RetryLookup_skipped(c, rem, title, env) == Resolved(c, <<>>)

\* RetryLookup that refreshes again when the refreshed cache has no match.
RetryLookup_again(c, rem, title, env) ==
    LET again(r) ==
          IF r.c.status = "run" /\ r.ids = <<>>
          THEN SecondLookup(
                  create_tasklist_cache([r.c EXCEPT !.retries = @ + 1], rem, env),
                  title)
          ELSE r
    IN again(SecondLookup(
                create_tasklist_cache([c EXCEPT !.retries = @ + 1], rem, env),
                title))

\* Lines 107-112: refresh the cache and look again when no title matched.
RetryLookup(c, rem, title, env) ==
    SecondLookup(create_tasklist_cache([c EXCEPT !.retries = @ + 1], rem, env),
                 title)

\* Lines 102-114: the lookup in the task lists 'first', loaded or rebuilt.
FirstLookup(first, rem, title, env) ==
    IF AfterRebuild(first).status # "run"
    THEN Resolved(AfterRebuild(first), <<>>)
    ELSE IF MatchingIds(first.lists, title) # <<>>
    THEN Resolved(AfterRebuild(first), MatchingIds(first.lists, title))
    ELSE RetryLookup([AfterRebuild(first) EXCEPT !.miss = TRUE], rem, title, env)

\* get_tasklist_ids that rebuilds the cache before every lookup.
get_tasklist_ids_refreshing(c0, rem, title, env) ==
    LET ld == load_tasklist_cache(c0.file)
    IN IF ld.raised
       THEN Resolved(Raise(c0, "JSONDecodeError"), <<>>)
       ELSE FirstLookup(create_tasklist_cache(c0, rem, env), rem, title, env)

get_tasklist_ids(c0, rem, title, env) ==
    LET ld == load_tasklist_cache(c0.file)
    IN IF ld.raised
       THEN Resolved(Raise(c0, "JSONDecodeError"), <<>>)
       ELSE FirstLookup(IF ld.none \/ ld.lists = <<>>
                        THEN create_tasklist_cache(c0, rem, env)
                        ELSE [c |-> c0, ok |-> TRUE, lists |-> ld.lists],
                        rem, title, env)

\* ------------------------------------------------------- the four operations
\* tasklist_ids[list_num]: Python counts a negative index from the end and
\* raises IndexError outside -len..len-1.
InIndex(ids, n) == -Len(ids) <= n /\ n < Len(ids)
PyIndex(ids, n) == IF n >= 0 THEN ids[n + 1] ELSE ids[Len(ids) + n + 1]

\* Lines 158-159, 230-231, 260-261.
Selected(ids, list_num) == IF Len(ids) = 1 \/ list_num = -1 THEN 0 ELSE list_num

Outcome(c, otherwise) ==
    IF c.status # "run" THEN c.status
    ELSE IF c.err THEN "httperror"
    ELSE otherwise

Result(c, rem, ids, target, mutated, otherwise) ==
    [c |-> c, remote |-> rem, ids |-> ids, target |-> target,
     mutated |-> mutated, outcome |-> Outcome(c, otherwise)]

\* The branches the three title-dependent operations share, on the resolved
\* identifiers 'res': report a missing or an ambiguous title, pick the
\* identifier.  'go' tells that the operation goes on with the identifier
\* 'id'; otherwise it has ended with 'result'.
Pick(res, rem, list_num) ==
    LET ids == res.ids
        n == Selected(ids, list_num)
        end(c, otherwise) ==
            [go |-> FALSE, c |-> c, ids |-> ids, id |-> NoId,
             result |-> Result(c, rem, ids, NoId, FALSE, otherwise)]
    IN IF res.c.status # "run" THEN end(res.c, "ok")
       ELSE IF ids = <<>> THEN end(res.c, "notfound")
       ELSE IF Len(ids) > 1 /\ list_num = -1 THEN end(res.c, "ambiguous")
       ELSE IF ~InIndex(ids, n) THEN end(Raise(res.c, "IndexError"), "ok")
       ELSE [go |-> TRUE, c |-> res.c, ids |-> ids, id |-> PyIndex(ids, n),
             result |-> Result(res.c, rem, ids, PyIndex(ids, n), FALSE, "ok")]

Dispatch(file, rem, title, list_num, env) ==
    Pick(get_tasklist_ids(Ctx0(file), rem, title, env), rem, list_num)

\* "Update cache file": the rebuild that ends an operation.
Refresh(c, rem, ids, id, env) ==
    Result(create_tasklist_cache(c, rem, env).c, rem, ids, id, TRUE, "ok")

\* Lines 181-190: the lines 'N. title' of the tasks, N counting from 0 in the
\* order of the sort by the position string.
PrintedLines(sorted) ==
    [i \in 1..Len(sorted) |->
        [n |-> i - 1, title |-> sorted[i].title, id |-> sorted[i].id]]

PrintTasks(c, task_items) ==
    [c EXCEPT !.printed = PrintedLines(SortByPosition(task_items))]

\* Lines 160-193, with the picked identifier d.id.
GetPicked(d, rem, env) ==
    LET ok1 == ~Fails(d.c, env) /\ d.id \in RemoteIds(rem)
        c1 == Issue(d.c, "tasklists.get", d.id, ok1)
        ok2 == ~Fails(c1, env)
        c2 == Issue(c1, "tasks.list", d.id, ok2)
    IN IF ~d.go THEN d.result
       ELSE IF ~ok1 THEN Result(c1, rem, d.ids, d.id, FALSE, "ok")
       ELSE IF ~ok2 THEN Result(c2, rem, d.ids, d.id, FALSE, "ok")
       ELSE IF RemoteById(rem, d.id).tasks = <<>> /\ env.noItems
       THEN Result(Raise(c2, "AttributeError"), rem, d.ids, d.id, FALSE, "ok")
       ELSE [Refresh(PrintTasks(c2, RemoteById(rem, d.id).tasks),
                     rem, d.ids, d.id, env) EXCEPT !.mutated = FALSE]

GetTasklist(file, rem, title, list_num, env) ==
    GetPicked(Dispatch(file, rem, title, list_num, env), rem, env)

CreateTasklist(file, rem, id, title, env) ==
    LET c == Ctx0(file)
        ok == ~Fails(c, env)
        c1 == Issue(c, "tasklists.insert", id, ok)
        rem1 == Append(rem, RemoteList(id, title, <<>>))
    IN IF ~ok THEN Result(c1, rem, <<>>, NoId, FALSE, "ok")
       ELSE Refresh(c1, rem1, <<>>, id, env)

Without(rem, id) == SelectSeq(rem, LAMBDA l : l.id # id)

\* Lines 232-244, with the picked identifier d.id.
DeletePicked(d, rem, env) ==
    LET ok == ~Fails(d.c, env) /\ d.id \in RemoteIds(rem)
        c1 == Issue(d.c, "tasklists.delete", d.id, ok)
    IN IF ~d.go THEN d.result
       ELSE IF ~ok THEN Result(c1, rem, d.ids, d.id, FALSE, "ok")
       ELSE Refresh(c1, Without(rem, d.id), d.ids, d.id, env)

DeleteTasklist(file, rem, title, list_num, env) ==
    DeletePicked(Dispatch(file, rem, title, list_num, env), rem, env)

Renamed(rem, id, new_title) ==
    [i \in 1..Len(rem) |->
        IF rem[i].id = id THEN [rem[i] EXCEPT !.title = new_title] ELSE rem[i]]

\* Lines 262-275, with the picked identifier d.id.
UpdatePicked(d, rem, new_title, env) ==
    LET ok == ~Fails(d.c, env) /\ d.id \in RemoteIds(rem)
        c1 == Issue(d.c, "tasklists.patch", d.id, ok)
    IN IF ~d.go THEN d.result
       ELSE IF ~ok THEN Result(c1, rem, d.ids, d.id, FALSE, "ok")
       ELSE Refresh(c1, Renamed(rem, d.id, new_title), d.ids, d.id, env)

UpdateTasklist(file, rem, title, new_title, list_num, env) ==
    UpdatePicked(Dispatch(file, rem, title, list_num, env), rem, new_title, env)

\* ---------------------------------------------------------------- calcurse.py
\* Text is a sequence of characters.  The data directory (DATA_DIR) holds the
\* file 'todo', one line per task as calcurse writes it, and the directory
\* 'notes' with one file per note, named by the hash of its body.
\* What is no text stands among texts as a sequence of one word: no note
\* file, no 'note' key in the dictionary, None.
NoHash == <<>>
Missing == <<"(no file)">>
NoKey == <<"(no key)">>
NoneText == <<"(None)">>
Whitespace == {" ", "\t", "\n"}

\* The line of the todo file for a task of calcurse: '[flag] title' or
\* '[flag]>hash title', ended by a newline.
TodoLine(entry) ==
    <<"[">> \o entry.flag \o <<"]">>
      \o (IF entry.hash = NoHash THEN <<>> ELSE <<">">> \o entry.hash)
      \o <<" ">> \o entry.title \o <<"\n">>

\* f.readlines()
ReadLines(entries) == [i \in 1..Len(entries) |-> TodoLine(entries[i])]

\* str.split(): the maximal runs of characters that are not whitespace.
RECURSIVE SplitFrom(_, _, _)
SplitFrom(s, word, words) ==
    IF s = <<>>
    THEN IF word = <<>> THEN words ELSE Append(words, word)
    ELSE IF Head(s) \in Whitespace
    THEN SplitFrom(Tail(s), <<>>,
                   IF word = <<>> THEN words ELSE Append(words, word))
    ELSE SplitFrom(Tail(s), Append(word, Head(s)), words)

Split(s) == SplitFrom(s, <<>>, <<>>)

\* ' '.join(words)
RECURSIVE Join(_)
Join(words) ==
    IF words = <<>> THEN <<>>
    ELSE IF Len(words) = 1 THEN words[1]
    ELSE words[1] \o <<" ">> \o Join(Tail(words))

\* s[4:] and s[slice(4, -1)]
From4(s) == SubSeq(s, 5, Len(s))
Slice4(s) == SubSeq(s, 5, Len(s) - 1)

\* s.rstrip('\n')
RECURSIVE RStrip(_)
RStrip(s) ==
    IF s # <<>> /\ s[Len(s)] = "\n" THEN RStrip(SubSeq(s, 1, Len(s) - 1)) ELSE s

\* open(NOTE_FILE) raises FileNotFoundError when there is no such file.
GetCalcurseNote(noteFiles, note_id) ==
    IF note_id \notin DOMAIN noteFiles \/ noteFiles[note_id] = Missing
    THEN [exc |-> "FileNotFoundError", note |-> <<>>]
    ELSE [exc |-> "", note |-> RStrip(noteFiles[note_id])]

CcResult(exc, tasks) ==
    [outcome |-> IF exc = "" THEN "ok" ELSE "crash", exc |-> exc, tasks |-> tasks]

\* Lines 26-40: the task of one line; task_line[3] raises IndexError on a
\* line of fewer than four characters.
GetCalcurseLine(task_line, noteFiles) ==
    IF Len(task_line) < 4 THEN [exc |-> "IndexError", task |-> <<>>]
    ELSE IF task_line[4] = ">"
    THEN LET got == GetCalcurseNote(noteFiles, From4(Split(task_line)[1]))
         IN IF got.exc # "" THEN [exc |-> got.exc, task |-> <<>>]
            ELSE [exc |-> "",
                  task |-> <<[title |-> Join(Tail(Split(Slice4(task_line)))),
                              note |-> got.note]>>]
    ELSE [exc |-> "", task |-> <<[title |-> Slice4(task_line), note |-> NoKey]>>]

RECURSIVE CalcurseLoop(_, _, _, _)
CalcurseLoop(task_lines, i, tasks, noteFiles) ==
    IF i > Len(task_lines) THEN CcResult("", tasks)
    ELSE LET one == GetCalcurseLine(task_lines[i], noteFiles)
         IN IF one.exc # "" THEN CcResult(one.exc, <<>>)
            ELSE CalcurseLoop(task_lines, i + 1, tasks \o one.task, noteFiles)

GetCalcurseTasks(entries, noteFiles) ==
    CalcurseLoop(ReadLines(entries), 1, <<>>, noteFiles)

\* Lines 64-69: the keys of a cached task that are dropped.
PopKeys(task) ==
    [title |-> task.title,
     note |-> IF task.note \in {NoneText, <<>>} THEN NoKey ELSE task.note]

\* Line 63: get_tasklist is called with three arguments and has four
\* parameters (creds, title, list_num, verbose), which raises TypeError before
\* its body runs; it has no return statement with a value either.
GetTasklistArity == 4

GetGoogleTasks(nargs, tasks) ==
    IF nargs # GetTasklistArity THEN CcResult("TypeError", <<>>)
    ELSE CcResult("", [i \in 1..Len(tasks) |-> PopKeys(tasks[i])])

\* Lines 74-76: read the local tasks and print them.
SyncTasks(entries, noteFiles) == GetCalcurseTasks(entries, noteFiles)

CcRecord(op, r) ==
    [op |-> op, outcome |-> r.outcome, exc |-> r.exc, tasks |-> r.tasks,
     remote0 |-> remote, todo0 |-> todo]

CcIdle ==
    [CcRecord("none", CcResult("", <<>>)) EXCEPT !.remote0 = <<>>, !.todo0 = <<>>]

NoNotes == <<>>

\* ------------------------------------------------------------------- actions
\* What the last invocation was and did, and what it started from: how many
\* remote lists had the title, the remote title of the list it went for, and
\* the remote store and the cache file themselves.
CountTitle(rem, title) == Cardinality({ i \in 1..Len(rem) : rem[i].title = title })

TitleOf(rem, id) ==
    IF id \in RemoteIds(rem) THEN RemoteById(rem, id).title ELSE "(none)"

Record(op, title, new_title, list_num, r) ==
    [op |-> op, title |-> title, new_title |-> new_title, list_num |-> list_num,
     outcome |-> r.outcome, exc |-> r.c.exc,
     calls |-> r.c.calls, ids |-> r.ids, target |-> r.target,
     mutated |-> r.mutated, rebuilds |-> r.c.rebuilds, done |-> r.c.done,
     rrebuilds |-> r.c.rrebuilds, rdone |-> r.c.rdone,
     retries |-> r.c.retries, miss |-> r.c.miss, enum |-> r.c.enum,
     printed |-> r.c.printed, failFile |-> r.c.failFile,
     remote0 |-> remote, file0 |-> cacheFile]

\* No invocation is under way.
Idle ==
    [Record("none", "A", "A", -1,
            Result(Ctx0(FileAbsent), <<>>, <<>>, NoId, FALSE, "ok"))
       EXCEPT !.remote0 = <<>>, !.file0 = FileAbsent]

Init ==
    /\ remote \in InitRemotes(MaxInit)
    /\ nextId = Len(remote) + 1
    /\ omitsItems \in BOOLEAN
    /\ cacheFile = FileAbsent
    /\ last = Idle
    /\ todo = <<>>
    /\ notesDir = NoNotes
    /\ cc = CcIdle

Step(op, title, new_title, list_num, r) ==
    /\ last = Idle
    /\ remote' = r.remote
    /\ cacheFile' = r.c.file
    /\ last' = Record(op, title, new_title, list_num, r)
    /\ UNCHANGED <<omitsItems, todo, notesDir, cc>>

get_tasklist(title, list_num, f) ==
    /\ Step("get", title, title, list_num,
            GetTasklist(cacheFile, remote, title, list_num, Env(f, omitsItems)))
    /\ UNCHANGED nextId

create_tasklist(title, f) ==
    /\ Len(remote) < MaxLists
    /\ nextId <= MaxIds
    /\ Step("create", title, title, -1,
            CreateTasklist(cacheFile, remote, nextId, title, Env(f, omitsItems)))
    /\ nextId' = IF last'.mutated THEN nextId + 1 ELSE nextId

delete_tasklist(title, list_num, f) ==
    /\ Step("delete", title, title, list_num,
            DeleteTasklist(cacheFile, remote, title, list_num, Env(f, omitsItems)))
    /\ UNCHANGED nextId

update_tasklist(title, new_title, list_num, f) ==
    /\ Step("update", title, new_title, list_num,
            UpdateTasklist(cacheFile, remote, title, new_title, list_num,
                           Env(f, omitsItems)))
    /\ UNCHANGED nextId

\* The operation returns (or its process ends): nothing of the invocation
\* outlives it but the remote store and the cache file.
Return ==
    /\ last # Idle
    /\ last' = Idle
    /\ UNCHANGED <<remote, nextId, omitsItems, cacheFile, todo, notesDir, cc>>

Next ==
    \/ Return
    \/ /\ last = Idle
       /\ \E title \in Titles, f \in Faults :
          \/ create_tasklist(title, f)
          \/ \E list_num \in ListNums :
                \/ get_tasklist(title, list_num, f)
                \/ delete_tasklist(title, list_num, f)
                \/ \E new_title \in Titles :
                      update_tasklist(title, new_title, list_num, f)

Spec == Init /\ [][Next]_vars

\* ------------------------------------------------- the calls into calcurse.py
\* The todo files, note files and remote tasks the calls are made on.  A flag
\* is the priority of the task, negative for a completed task; a title may
\* hold a run of blanks; a note body may be empty and may end in newlines.
Flags == { <<"0">>, <<"-", "1">> }
Hashes == { NoHash, <<"h">> }
TaskTitles == { <<"a">>, <<"a", " ", "b">>, <<"a", " ", " ", "b">> }
NoteBodies ==
    { Missing, <<>>, <<"\n">>, <<"n">>, <<"n", "\n">>, <<"n", "\n", "\n">> }

TodoEntries == [flag : Flags, hash : Hashes, title : TaskTitles]

RECURSIVE TodoFiles(_)
TodoFiles(n) ==
    IF n = 0 THEN { <<>> }
    ELSE LET shorter == TodoFiles(n - 1)
         IN shorter \cup
            { Append(f, e) : f \in { g \in shorter : Len(g) = n - 1 },
                             e \in TodoEntries }

GoogleTask(id, title, note, pos) ==
    [Task(id, pos, note) EXCEPT !.title = title]

GoogleTaskChoices ==
    { <<>>,
      <<GoogleTask(1, <<"a">>, NoneText, <<1>>)>>,
      <<GoogleTask(1, <<"a">>, <<>>, <<1>>)>>,
      <<GoogleTask(1, <<"a">>, <<"n">>, <<1>>)>>,
      <<GoogleTask(1, <<"a">>, NoneText, <<1>>),
        GoogleTask(2, <<"a">>, NoneText, <<2>>)>> }

CalcurseInit ==
    /\ remote \in { <<RemoteList(1, "A", ts)>> : ts \in GoogleTaskChoices }
    /\ nextId = 2
    /\ omitsItems = FALSE
    /\ cacheFile = FileAbsent
    /\ last = Idle
    /\ todo \in TodoFiles(MaxTodo)
    /\ notesDir \in [Hashes \ {NoHash} -> NoteBodies]
    /\ cc = CcIdle

CcStep(op, r) ==
    /\ cc' = CcRecord(op, r)
    /\ UNCHANGED <<remote, nextId, omitsItems, cacheFile, last, todo, notesDir>>

get_calcurse_tasks == CcStep("calcurse", GetCalcurseTasks(todo, notesDir))

\* The tasks get_tasklist(...)['tasks'] stands for: those of the list.
TasksOf(rem, list_title) ==
    IF MatchingIds(rem, list_title) = <<>> THEN <<>>
    ELSE CacheTasks(RemoteById(rem, MatchingIds(rem, list_title)[1]).tasks)

get_google_tasks(list_title, list_num) ==
    CcStep("google", GetGoogleTasks(3, TasksOf(remote, list_title)))

sync_tasks == CcStep("sync", SyncTasks(todo, notesDir))

CalcurseNext ==
    \/ get_calcurse_tasks
    \/ \E list_title \in Titles, list_num \in ListNums :
          get_google_tasks(list_title, list_num)
    \/ sync_tasks

SpecCalcurse == CalcurseInit /\ [][CalcurseNext]_vars

\* ==================================================================== claims
TitleOps == {"get", "delete", "update"}
MutatingMethods == {"tasklists.insert", "tasklists.patch", "tasklists.delete"}

CallsOf(calls, methods) == { i \in 1..Len(calls) : calls[i].m \in methods }
AllCallsOk(calls) == \A i \in 1..Len(calls) : calls[i].ok

\* The invocation met a fault of its own: a failed remote call, an uncaught
\* exception or an interrupted write.
Faulted == last.outcome \in {"httperror", "crash", "killed"}

\* The identifiers of the remote lists with the title, in the store's order.
RemoteIdsTitled(rem, title) == MatchingIds(rem, title)

\* get_tasklist_ids(title) called now, every remote call succeeding.
NoFault == [failAt |-> 0, killAt |-> 0, killMode |-> "empty"]
ResolveNow(title) ==
    get_tasklist_ids(Ctx0(cacheFile), remote, title, Env(NoFault, omitsItems))

\* The cache entry a rebuild makes of an enumeration.
EntryOf(items) == [i \in 1..Len(items) |-> CacheList(items[i])]

Pairs(lists) == { <<lists[i].id, lists[i].title>> : i \in 1..Len(lists) }

\* The persisted cache can serve a lookup: it parses and holds a list.
Usable(file) == file.kind = "json" /\ file.lists # <<>>

\* C1 - Ambiguity short-circuit: when the remote store holds two or more lists
\* titled T, get/delete/update called with T and no selector (list_num = -1)
\* ends Ambiguous and issues no insert, patch or delete, whatever the cache
\* holds.  (Stated for invocations that meet no fault of their own, on a
\* remote store that fits one page of tasklists().list.)
C1_AmbiguityShortCircuit ==
    ( /\ last.op \in TitleOps
      /\ last.list_num = -1
      /\ CountTitle(last.remote0, last.title) >= 2
      /\ Len(last.remote0) <= MaxResults
      /\ ~Faulted )
    => /\ last.outcome = "ambiguous"
       /\ CallsOf(last.calls, MutatingMethods) = {}

\* C2 - Right-list mutation: delete/update called with T, when one list is
\* resolved or an in-range selector i is given, issues one mutation, on the
\* i-th resolved identifier; that list is titled T in the remote store and
\* every other remote list is left as it was.
C2_Index == IF Len(last.ids) = 1 THEN 1 ELSE last.list_num + 1

C2_RightListMutation ==
    ( /\ last.op \in {"delete", "update"}
      /\ last.mutated
      /\ \/ Len(last.ids) = 1
         \/ (0 <= last.list_num /\ last.list_num < Len(last.ids)) )
    => /\ Cardinality(CallsOf(last.calls, MutatingMethods)) = 1
       /\ last.target = last.ids[C2_Index]
       /\ TitleOf(last.remote0, last.target) = last.title
       /\ \A id \in RemoteIds(last.remote0) \ {last.target} :
             /\ id \in RemoteIds(remote)
             /\ RemoteById(remote, id) = RemoteById(last.remote0, id)

\* C3 - Selector out of range is an error: get/delete/update called with a
\* selector that is no index of the resolved identifiers (i >= their number,
\* i < -1, or i # 0 with one candidate) ends in an error and issues no get,
\* patch or delete (nor a tasks listing) on a list it picked instead.
C3_OutOfRange ==
    /\ last.list_num # -1
    /\ ~(0 <= last.list_num /\ last.list_num < Len(last.ids))

C3_SelectorOutOfRangeIsError ==
    ( /\ last.op \in TitleOps
      /\ last.ids # <<>>
      /\ C3_OutOfRange )
    => /\ last.outcome \in {"crash", "httperror"}
       /\ last.target = NoId
       /\ CallsOf(last.calls,
                  {"tasklists.get", "tasklists.patch", "tasklists.delete"}) = {}

\* C4 - Resolve-after-create: after create_tasklist(X) succeeds, the next
\* get_tasklist_ids(X) returns exactly the identifier of the created list.
\* (Stated for a title no remote list had before the call.)
C4_ResolveAfterCreate ==
    ( /\ last.op = "create"
      /\ last.outcome = "ok"
      /\ CountTitle(last.remote0, last.title) = 0 )
    => /\ ResolveNow(last.title).c.status = "run"
       /\ ResolveNow(last.title).ids = <<last.target>>

\* C5 - No NotFound from the cache alone: whenever an operation reports 'Task
\* list does not exist' for T, get_tasklist_ids made its refresh, the refresh
\* ran to its end with every remote call succeeding and was persisted, and
\* the enumeration of task lists it used held no list titled T.
C5_NoNotFoundFromCacheAlone ==
    (last.outcome = "notfound")
    => /\ last.retries = 1
       /\ last.rdone >= 1
       /\ AllCallsOk(last.calls)
       /\ last.calls # <<>>
       /\ cacheFile = FileJson(EntryOf(last.enum))
       /\ MatchingIds(last.enum, last.title) = <<>>
       /\ last.enum = SubSeq(remote, 1, Min(Len(remote), MaxResults))

\* The case of C5: the cache held lists, none titled T, and the operation
\* reported the list missing.
C5_Witness ==
    /\ last.outcome = "notfound"
    /\ Usable(last.file0)
    /\ MatchingIds(last.file0.lists, last.title) = <<>>

\* C6 - Bounded retry: one get_tasklist_ids call refreshes and retries once
\* when its first lookup finds no list of the title and never otherwise, and
\* it ends after at most two rebuilds (one for an absent or empty cache, one
\* for the retry); an operation makes at most one more.
C6_BoundedRetry ==
    (last.op \in TitleOps)
    => /\ last.retries <= 1
       /\ (last.retries = 1) <=> last.miss
       /\ Usable(last.file0)
            => (last.miss <=> MatchingIds(last.file0.lists, last.title) = <<>>)
       /\ last.rrebuilds <= 2
       /\ (last.rrebuilds = 2) => (~Usable(last.file0) /\ last.miss)
       /\ last.rebuilds <= last.rrebuilds + 1
       /\ Cardinality(CallsOf(last.calls, {"tasklists.list"})) = last.rebuilds

\* The case of C6: no cache, so a first rebuild, then a miss and the retry.
C6_Witness ==
    /\ last.op \in TitleOps
    /\ last.file0.kind = "absent"
    /\ last.rrebuilds = 2
    /\ last.retries = 1
    /\ last.outcome = "notfound"

\* C7 - Mutation notification: after a successful create, update or delete
\* the cache has been rebuilt, so the next get_tasklist_ids(T) returns exactly
\* the identifiers of the remote lists now titled T.
C7_MutationNotification ==
    ( /\ last.op \in {"create", "delete", "update"}
      /\ last.mutated
      /\ last.outcome = "ok" )
    => \A t \in Titles :
          /\ ResolveNow(t).c.status = "run"
          /\ ResolveNow(t).ids = RemoteIdsTitled(remote, t)

\* C8 - Corrupt cache is recoverable: when the cache file exists and does not
\* parse, load_tasklist_cache returns None and get_tasklist_ids goes on to a
\* rebuild; the operation does not end in an error of the corrupt cache.
C8_CorruptCacheRecoverable ==
    ( /\ last.op \in TitleOps
      /\ last.file0.kind \in {"empty", "partial"} )
    => /\ last.exc # "JSONDecodeError"
       /\ last.rrebuilds >= 1

\* C9 - Atomic cache rewrite: at every point, an interrupted rebuild
\* included, the cache file is absent or holds a complete entry (the one
\* before or the one after), never an empty or partly written text.
C9_AtomicCacheRewrite ==
    /\ cacheFile.kind \in {"absent", "json"}
    /\ (last # Idle /\ last.outcome = "killed")
         => cacheFile = last.file0 \/ cacheFile = FileJson(EntryOf(last.enum))

\* C10 - Rebuild captures the whole remote store: a rebuild in which no
\* remote call fails returns and persists an entry whose (identifier, title)
\* pairs are those of all the task lists of the remote store, for any number
\* of lists and of tasks.  (Stated for a service that sends 'items' with an
\* empty collection too.)
C10_RebuildCapturesStore ==
    ( /\ last.rebuilds >= 1
      /\ ~omitsItems
      /\ AllCallsOk(last.calls)
      /\ last.outcome # "killed"
      /\ last.exc # "IndexError" )
    => /\ last.outcome # "crash"
       /\ cacheFile.kind = "json"
       /\ Pairs(cacheFile.lists) = Pairs(remote)

\* C11 - Cache rebuild idempotence: when the last thing an invocation did was
\* a rebuild that ran to its end, a second rebuild of the same remote store
\* runs to its end too and leaves the cache file as the first left it: the
\* same lists in the same order, the same tasks in the same order, the same
\* field values.
RebuildNow ==
    create_tasklist_cache(Ctx0(cacheFile), remote, Env(NoFault, omitsItems))

C11_LastRebuildPersisted ==
    /\ last.rebuilds >= 1
    /\ last.done = last.rebuilds

C11_RebuildIdempotent ==
    C11_LastRebuildPersisted
    => /\ RebuildNow.ok
       /\ RebuildNow.c.done = 1
       /\ RebuildNow.c.file = cacheFile
       /\ RebuildNow.lists = cacheFile.lists

\* The case of C11: the rebuilt cache holds two lists, one with two tasks.
C11_Witness ==
    /\ C11_LastRebuildPersisted
    /\ cacheFile.kind = "json"
    /\ Len(cacheFile.lists) = 2
    /\ \E i \in 1..2 : Len(cacheFile.lists[i].tasks) = 2

\* C18 - Position ordering: after every rebuild that ran to its end, the
\* tasks the cache file holds for each list are in ascending order of their
\* integer position, and the index N that get_tasklist prints for a task is
\* its rank by ascending integer position (the number of tasks of the list
\* with a smaller position), whatever the lengths of the position texts.
Ascending(tasks) ==
    \A i, j \in 1..Len(tasks) : i < j => tasks[i].position <= tasks[j].position

RankByPosition(task_items, id) ==
    Cardinality({ k \in 1..Len(task_items) :
        StrToInt(task_items[k].position)
          < StrToInt(RemoteById(task_items, id).position) })

C18_PositionOrdering ==
    /\ (last.rebuilds >= 1 /\ last.done = last.rebuilds)
         => \A i \in 1..Len(cacheFile.lists) :
               Ascending(cacheFile.lists[i].tasks)
    /\ \A i \in 1..Len(last.printed) :
          last.printed[i].n
            = RankByPosition(RemoteById(last.remote0, last.target).tasks,
                             last.printed[i].id)

\* C19 - Failure leaves the cache untouched: when a remote call fails during
\* a rebuild (tasklists.list or tasks.list), the cache file is exactly as it
\* was when the rebuild started; when the insert, patch or delete of create,
\* update or delete fails, the cache file is exactly as it was before the
\* operation started.
FailedCalls(calls) == { i \in 1..Len(calls) : ~calls[i].ok }

C19_RemoteCallFailed ==
    /\ last.op \in {"create", "delete", "update", "get"}
    /\ FailedCalls(last.calls) # {}

C19_FailureLeavesCacheUntouched ==
    C19_RemoteCallFailed
    => /\ last.calls[Len(last.calls)].m \in {"tasklists.list", "tasks.list"}
            => cacheFile = last.failFile
       /\ last.calls[Len(last.calls)].m \in MutatingMethods
            => cacheFile = last.file0

\* C19, amended - A failed remote call writes nothing: when a remote call of
\* an operation fails, the cache file is exactly as it was when the call was
\* issued, the failed call is the last one and no rebuild follows it.  That
\* is the file before the operation started when the operation is create, or
\* when no rebuild of the operation had run to its end before the call; else
\* it is the file that rebuild wrote.
C19_FailedCallWritesNothing ==
    C19_RemoteCallFailed
    => /\ FailedCalls(last.calls) = {Len(last.calls)}
       /\ cacheFile = last.failFile
       /\ (last.op = "create" \/ last.done = 0) => cacheFile = last.file0
       /\ last.done >= 1 => cacheFile.kind = "json"
       /\ last.outcome \in {"httperror", "crash"}

\* The case of C19: the patch or delete failed after get_tasklist_ids had
\* rebuilt the cache.
C19_Witness ==
    /\ C19_RemoteCallFailed
    /\ last.calls[Len(last.calls)].m \in {"tasklists.patch", "tasklists.delete"}
    /\ last.done >= 1
    /\ cacheFile # last.file0

\* C20 - Cache hit is local: when the cache file is readable and holds a list
\* titled T, get_tasklist_ids(T) issues no remote call, makes no rebuild,
\* leaves the cache file as it is and returns the identifiers of the cached
\* lists titled T in the order of the cache, whatever the remote store holds
\* by now and whatever fault the environment has in store.  (Checked for a
\* call between two invocations, and for the call each operation makes.)
CacheHit(file, title) ==
    Usable(file) /\ MatchingIds(file.lists, title) # <<>>

ResolveUnder(title, f) ==
    get_tasklist_ids(Ctx0(cacheFile), remote, title, Env(f, omitsItems))

LocalAnswer(res, file, title) ==
    /\ res.c.calls = <<>>
    /\ res.c.rebuilds = 0
    /\ res.c.writes = 0
    /\ res.c.file = file
    /\ res.c.status = "run"
    /\ res.ids = MatchingIds(file.lists, title)

C20_CacheHitIsLocal ==
    /\ \A title \in Titles, f \in Faults :
          (last = Idle /\ CacheHit(cacheFile, title))
          => LocalAnswer(ResolveUnder(title, f), cacheFile, title)
    /\ (last.op \in TitleOps /\ CacheHit(last.file0, last.title))
         => /\ last.rrebuilds = 0
            /\ last.retries = 0
            /\ last.ids = MatchingIds(last.file0.lists, last.title)
            /\ last.calls # <<>> => last.calls[1].m # "tasklists.list"

\* The case of C20: an operation resolved its title from the cache alone
\* while the remote store held other lists of that title than the cache.
C20_Witness ==
    /\ last.op \in TitleOps
    /\ CacheHit(last.file0, last.title)
    /\ Len(last.ids) = 2
    /\ MatchingIds(last.remote0, last.title) # last.ids
    /\ last.rrebuilds = 0

\* C15 - Remote failure is classified: whenever a remote call fails during
\* get, delete or update - a call of the rebuild inside get_tasklist_ids
\* included - the operation ends with the remote failure as its outcome: not
\* 'Task list does not exist', not an uncaught exception, and with no insert,
\* patch or delete issued after the failed call.  (Stated for a service that
\* sends 'items' with an empty collection too.)
C15_RemoteFailureClassified ==
    (last.op \in TitleOps /\ FailedCalls(last.calls) # {} /\ ~omitsItems)
    => /\ last.outcome = "httperror"
       /\ last.exc = ""
       /\ \A i \in FailedCalls(last.calls) :
             \A j \in CallsOf(last.calls, MutatingMethods) : j < i

\* ------------------------------------------------------- claims on calcurse.py
\* Every note a line of the todo file refers to can be read.
NotesReadable(entries, noteFiles) ==
    \A i \in 1..Len(entries) :
        entries[i].hash # NoHash => noteFiles[entries[i].hash] # Missing

\* The task a line of the todo file stands for: its title and, for a line
\* with a note reference, the body of the note without its trailing newlines.
TaskOfEntry(entry, noteFiles) ==
    [title |-> entry.title,
     note |-> IF entry.hash = NoHash THEN NoKey
              ELSE RStrip(noteFiles[entry.hash])]

\* The comparison shape of a task: its title and its note, an empty or
\* absent note being no note.
KeyOf(task) ==
    [title |-> task.title,
     note |-> IF task.note \in {NoKey, NoneText, <<>>} THEN NoKey ELSE task.note]

LocalKeys(entries, noteFiles) ==
    [i \in 1..Len(entries) |-> KeyOf(TaskOfEntry(entries[i], noteFiles))]

RemoteKeys(rem) ==
    [i \in 1..Len(rem[1].tasks) |->
        KeyOf([title |-> rem[1].tasks[i].title, note |-> rem[1].tasks[i].notes])]

Count(keys, k) == Cardinality({ i \in 1..Len(keys) : keys[i] = k })
KeysIn(keys) == { keys[i] : i \in 1..Len(keys) }
Max0(n) == IF n > 0 THEN n ELSE 0

SyncRan == cc.op = "sync" /\ cc.outcome = "ok" /\ NotesReadable(cc.todo0, notesDir)

\* C12 - Sync idempotence and add-only: after one run of sync_tasks every
\* task key has at least as many local and remote tasks as before, and the
\* two sides hold every key equally often, so that a second run finds no
\* task missing on either side and creates nothing.
C12_SyncIdempotentAddOnly ==
    SyncRan
    => \A k \in KeysIn(LocalKeys(cc.todo0, notesDir))
                  \cup KeysIn(RemoteKeys(cc.remote0)) :
          /\ Count(LocalKeys(todo, notesDir), k)
               >= Count(LocalKeys(cc.todo0, notesDir), k)
          /\ Count(RemoteKeys(remote), k) >= Count(RemoteKeys(cc.remote0), k)
          /\ Count(LocalKeys(todo, notesDir), k) = Count(RemoteKeys(remote), k)

\* C13 - Duplicate preservation: for every task key k, sync_tasks creates
\* max(0, countLocal(k) - countRemote(k)) remote tasks and
\* max(0, countRemote(k) - countLocal(k)) local tasks; two local tasks of one
\* title and an empty remote list make two remote tasks of that title.
C13_DuplicatePreservation ==
    SyncRan
    => \A k \in KeysIn(LocalKeys(cc.todo0, notesDir))
                  \cup KeysIn(RemoteKeys(cc.remote0)) :
          /\ Count(RemoteKeys(remote), k) - Count(RemoteKeys(cc.remote0), k)
               = Max0(Count(LocalKeys(cc.todo0, notesDir), k)
                        - Count(RemoteKeys(cc.remote0), k))
          /\ Count(LocalKeys(todo, notesDir), k)
               - Count(LocalKeys(cc.todo0, notesDir), k)
               = Max0(Count(RemoteKeys(cc.remote0), k)
                        - Count(LocalKeys(cc.todo0, notesDir), k))

\* C14 - Empty-note normalization on both sides: a task that
\* get_calcurse_tasks or get_google_tasks returns has no 'note' key when its
\* note is empty or absent, so that a local task whose note file is empty
\* equals the remote task of the same title that has no note.
C14_EmptyNoteNormalized ==
    /\ (cc.op = "calcurse" /\ cc.outcome = "ok")
         => \A i \in 1..Len(cc.tasks) : cc.tasks[i] = KeyOf(cc.tasks[i])
    /\ cc.op = "google"
         => /\ cc.outcome = "ok"
            /\ \A i \in 1..Len(cc.tasks) : cc.tasks[i] = KeyOf(cc.tasks[i])

\* C16 - Unreadable note is fatal: when a line of the todo file carries a
\* note reference whose note file is missing, get_calcurse_tasks fails for
\* the whole read and returns no task.
C16_UnreadableNoteIsFatal ==
    (cc.op = "calcurse" /\ ~NotesReadable(todo, notesDir))
    => /\ cc.outcome = "crash"
       /\ cc.exc = "FileNotFoundError"
       /\ cc.tasks = <<>>

\* C17 - readTasks parsing: for every todo file whose notes can be read,
\* get_calcurse_tasks returns one task per line in the order of the file:
\* the title alone for '[flag] title', and for '[flag]>hash title' the title
\* after the hash and the body of the note file without trailing newlines.
C17_ReadTasksParsing ==
    (cc.op = "calcurse" /\ NotesReadable(todo, notesDir))
    => /\ cc.outcome = "ok"
       /\ Len(cc.tasks) = Len(todo)
       /\ \A i \in 1..Len(todo) :
             i <= Len(cc.tasks) => cc.tasks[i] = TaskOfEntry(todo[i], notesDir)

====
